---- MODULE Spec2Model ----
(***************************************************************************)
(* Model of tvdenoise.c (TV regularized denoising demo): command-line      *)
(* parsing, main, Denoise, LambdaTune and ComputeRmse.                     *)
(*                                                                         *)
(* The C type num (a floating-point number) is modelled as a fixed-point   *)
(* number: a record [nan, v], v counting units of 1/ONE (1e-4), nan the    *)
(* IEEE not-a-number, for which every comparison is false.                 *)
(* Strings are sequences of atoms: "-ngaussian:10" is                      *)
(* <<"-", "n", "gaussian", ":", "10">>.                                    *)
(***************************************************************************)
EXTENDS Integers, Sequences, FiniteSets, TLC

VARIABLES
    pc,             \* position of the program
    Param,          \* programparams of main
    stderr,         \* last message printed by ParseParams / Denoise / LambdaTune
    f,              \* image f of main (the noisy image)
    u,              \* image u of main (the working / denoised image)
    Opt,            \* the tvregopt object of Denoise
    OptLive,        \* TRUE while a tvregopt allocated by TvRegNewOpt is not freed
    Lambda,         \* local Lambda of LambdaTune
    Rmse,           \* local Rmse of LambdaTune
    k,              \* loop counter of LambdaTune
    Success,        \* value returned by Denoise
    Status,         \* local Status of main
    exitCode,       \* value returned by main (-1 while the program runs)
    written,        \* what WriteImage has written to the output file
    nSolve,         \* number of TvRestore invocations so far
    nTune,          \* number of TvRestore invocations made by LambdaTune
    lastCall,       \* arguments and result of the latest TvRestore invocation
    solverFailed,   \* TRUE once a TvRestore invocation has returned 0
    callsAfterFail, \* number of TvRestore invocations made after a failed one
    nCopy,          \* number of times memcpy(u.Data, f.Data) was executed
    lastOut         \* samples the latest TvRestore invocation left in u.Data

vars == <<pc, Param, stderr, f, u, Opt, OptLive, Lambda, Rmse, k, Success,
          Status, exitCode, written, nSolve, nTune, lastCall, solverFailed,
          callsAfterFail, nCopy, lastOut>>

(***************************************************************************)
(* Bounds of the model                                                     *)
(***************************************************************************)
\* largest number of command-line arguments after the program name
MaxArgs == 4

(***************************************************************************)
(* Program constants                                                       *)
(***************************************************************************)
DISPLAY_SCALING == 255
LAMBDA_TUNE_ITERATIONS == 5

(***************************************************************************)
(* The type num                                                            *)
(***************************************************************************)
\* number of fixed-point units in 1.0
ONE == 10000

Num(x) == [nan |-> FALSE, v |-> x]
NaN == [nan |-> TRUE, v |-> 0]

\* a <= 0, a < 0, a > 0 and a < b as C evaluates them (false for a NaN)
LeZero(a) == ~a.nan /\ a.v <= 0
LtZero(a) == ~a.nan /\ a.v < 0
GtZero(a) == ~a.nan /\ a.v > 0
NumLess(a, b) == ~a.nan /\ ~b.nan /\ a.v < b.v

\* Every product in this module stays below 2^31 for the sigmas and sample
\* values of the model.

\* sqrt(n) for n >= 0, rounded down: bisection on lo <= sqrt(n) < hi
RECURSIVE IsqrtBetween(_, _, _)
IsqrtBetween(n, lo, hi) ==
    IF hi - lo <= 1 THEN lo
    ELSE LET mid == (lo + hi) \div 2
         IN IF mid * mid <= n THEN IsqrtBetween(n, mid, hi) ELSE IsqrtBetween(n, lo, mid)

Isqrt(n) == IF n < 1 THEN 0 ELSE IsqrtBetween(n, 1, IF n < 46340 THEN n + 1 ELSE 46341)

(***************************************************************************)
(* Strings                                                                 *)
(***************************************************************************)
NULL == <<"(null)">>

\* strchr(s, ':') as an index into s, 0 when there is no ':'
StrChrColon(s) ==
    IF \E i \in 1..Len(s) : s[i] = ":"
    THEN CHOOSE i \in 1..Len(s) : s[i] = ":" /\ \A j \in 1..(i - 1) : s[j] # ":"
    ELSE 0

\* the decimal numbers that occur in the modelled command lines
Digits == [a \in {"0", "5", "10"} |-> CASE a = "0" -> 0 [] a = "5" -> 5 [] a = "10" -> 10]

\* atof(s): the number at the start of s, 0 when there is none; "nan" is a
\* number for strtod. The result is in units of 1 (not of 1/ONE).
Atof(s) ==
    IF s = <<>> THEN Num(0)
    ELSE IF s[1] = "nan" THEN NaN
    ELSE IF s[1] \in DOMAIN Digits THEN Num(Digits[s[1]])
    ELSE IF s[1] = "-" /\ Len(s) >= 2 /\ s[2] \in DOMAIN Digits THEN Num(0 - Digits[s[2]])
    ELSE Num(0)

(***************************************************************************)
(* ParseParams                                                             *)
(***************************************************************************)
\* the words a command line is made of
ArgTokens ==
    { <<"-", "n">>, <<"-", "l">>, <<"-", "l", "5">>, <<"-">>, <<"-", "x">>,
      <<"-", "-">>,
      <<"gaussian", ":", "10">>, <<"laplace", ":", "10">>,
      <<"poisson", ":", "10">>, <<"speckle", ":", "10">>,
      <<"gaussian", ":", "0">>, <<"gaussian", ":", "nan">>, <<"speckle">>,
      <<"5">>, <<"-", "5">>, <<"in.png">>, <<"out.png">> }

\* argv[1 .. argc-1] for an argc of n + 1
CommandLines(n) == [1..n -> ArgTokens]

\* Param before ParseParams sets the defaults (main leaves it uninitialized;
\* it is never read in that state)
ParamUnset ==
    [InputFile |-> NULL, OutputFile |-> NULL, JpegQuality |-> 0,
     Model |-> NULL, Sigma |-> Num(0), Lambda |-> Num(0)]

ParamDefaults ==
    [InputFile |-> NULL, OutputFile |-> NULL, JpegQuality |-> 95,
     Model |-> <<"gaussian">>, Sigma |-> Num(0 - ONE), Lambda |-> Num(0 - ONE)]

ParseResult(ret, P, msg) == [ret |-> ret, Param |-> P, msg |-> msg]

\* case 'n' of the switch: r is [ok, Param, msg]
OptionN(P, OptionString) ==
    LET c == StrChrColon(OptionString)
        model == IF c = 0 THEN OptionString ELSE SubSeq(OptionString, 1, c - 1)
        a == Atof(SubSeq(OptionString, c + 1, Len(OptionString)))
        sigma == IF a.nan THEN NaN ELSE Num((a.v * ONE) \div DISPLAY_SCALING)
    IN  IF c = 0
        THEN ParseResult(1, [P EXCEPT !.Model = model], "")
        ELSE IF LeZero(sigma)
             THEN ParseResult(0, [P EXCEPT !.Model = model, !.Sigma = sigma],
                              "sigma must be positive.")
             ELSE ParseResult(1, [P EXCEPT !.Model = model, !.Sigma = sigma], "")

\* case 'l' of the switch
OptionL(P, OptionString) ==
    LET a == Atof(OptionString)
        lambda == IF a.nan THEN NaN ELSE Num(a.v * ONE)
    IN  IF LeZero(lambda)
        THEN ParseResult(0, [P EXCEPT !.Lambda = lambda], "lambda must be positive.")
        ELSE ParseResult(1, [P EXCEPT !.Lambda = lambda], "")

\* Faulty variant of ParseFinish: the check that sigma or lambda was given
\* is missing.
ParseFinish_NoCheck(P) ==
    IF P.InputFile = NULL
    THEN ParseResult(0, P, "help")
    ELSE ParseResult(1, P, "")

\* the checks after the loop
ParseFinish(P) ==
    IF P.InputFile = NULL
    THEN ParseResult(0, P, "help")
    ELSE IF LtZero(P.Sigma) /\ LtZero(P.Lambda)
         THEN ParseResult(0, P, "Either sigma or lambda must be specified.")
         ELSE ParseResult(1, P, "")

\* the loop for(i = 1; i < argc;) from index i on; args[i] is argv[i]
RECURSIVE ParseLoop(_, _, _)
ParseLoop(args, i, P) ==
    IF i > Len(args) THEN ParseFinish(P)
    ELSE LET a == args[i] IN
         IF a # <<>> /\ a[1] = "-"
         THEN IF Len(a) < 2
              THEN ParseResult(0, P, "Invalid parameter format.")
              ELSE IF Len(a) < 3 /\ i + 1 > Len(args)
                   THEN ParseResult(0, P, "Invalid parameter format.")
                   ELSE LET OptionChar == a[2]
                            j == IF Len(a) >= 3 THEN i ELSE i + 1
                            OptionString == IF Len(a) >= 3 THEN SubSeq(a, 3, Len(a))
                                            ELSE args[j]
                            r == CASE OptionChar = "n" -> OptionN(P, OptionString)
                                   [] OptionChar = "l" -> OptionL(P, OptionString)
                                   [] OptionChar = "-" -> ParseResult(0, P, "help")
                                   [] OTHER -> ParseResult(0, P, "Unknown option.")
                        IN  IF r.ret = 0 THEN r ELSE ParseLoop(args, j + 1, r.Param)
         ELSE IF P.InputFile = NULL
              THEN ParseLoop(args, i + 1, [P EXCEPT !.InputFile = a])
              ELSE ParseLoop(args, i + 1, [P EXCEPT !.OutputFile = a])

\* ParseParams(&Param, argc, argv) with argc = Len(args) + 1
ParseParams(args) ==
    IF Len(args) + 1 < 2
    THEN ParseResult(0, ParamUnset, "help")
    ELSE ParseLoop(args, 1, ParamDefaults)

(***************************************************************************)
(* Images                                                                  *)
(***************************************************************************)
\* the sample values of an image, in units of 1/ONE
PixelVals == {0, 100}

\* image f = {NULL, 0, 0, 0}
NullImage == [Data |-> <<>>, Width |-> 0, Height |-> 0, NumChannels |-> 0]

\* the sample buffers of n samples
Buffers(n) == [1..n -> PixelVals]

\* what ReadImage can decode from the readable files: Width x Height pixels
\* as three planes (IMAGEIO_RGB | IMAGEIO_PLANAR); one image is gray, the
\* other is not
DecodedImages ==
    {[Data |-> d, Width |-> 1, Height |-> 1, NumChannels |-> 0] :
        d \in {<<100, 100, 100>>, <<0, 100, 0>>}}

\* the output file before WriteImage has written it
NoOutput == [File |-> NULL, Data |-> <<>>]

\* the files of the file system that hold an image
ReadableFiles == {<<"in.png">>}

IsGrayscale(img) ==
    LET NumPixels == img.Width * img.Height
    IN  IF \E n \in 1..NumPixels :
               \/ img.Data[n] # img.Data[NumPixels + n]
               \/ img.Data[n] # img.Data[2 * NumPixels + n]
        THEN 0 ELSE 1

NumSamples(img) == img.Width * img.Height * img.NumChannels

\* Faulty variant of SumSquares: the samples are added,
\* "Temp = f.Data[n] + u.Data[n]".
RECURSIVE SumSquares_Plus(_, _, _)
SumSquares_Plus(a, b, n) ==
    IF n = 0 THEN 0
    ELSE SumSquares_Plus(a, b, n - 1) + (a[n] + b[n]) * (a[n] + b[n])

\* Faulty variant of SumSquares: the difference is not squared,
\* "Rmse += Temp".
RECURSIVE SumSquares_Unsquared(_, _, _)
SumSquares_Unsquared(a, b, n) ==
    IF n = 0 THEN 0
    ELSE SumSquares_Unsquared(a, b, n - 1) + (a[n] - b[n])

\* the sum that the loop of ComputeRmse leaves in Rmse after n samples
RECURSIVE SumSquares(_, _, _)
SumSquares(a, b, n) ==
    IF n = 0 THEN 0
    ELSE SumSquares(a, b, n - 1) + (a[n] - b[n]) * (a[n] - b[n])

\* ComputeRmse(f, u): the loop runs over the N samples of u
ComputeRmse(ff, uu) ==
    LET N == NumSamples(uu)
    IN  Num(Isqrt(SumSquares(ff.Data, uu.Data, N) \div N))

(***************************************************************************)
(* tvreg: the options object and the solver                                *)
(***************************************************************************)
Recognized == {<<"gaussian">>, <<"laplace">>, <<"poisson">>}

\* the tvregopt pointer Opt = NULL
NullOpt ==
    [Lambda |-> Num(0), NoiseModel |-> NULL, Tol |-> Num(0), MaxIter |-> 0,
     PlotFun |-> "none"]

\* the object TvRegNewOpt returns
NewOpt ==
    [Lambda |-> Num(0), NoiseModel |-> <<"gaussian">>, Tol |-> Num(0), MaxIter |-> 0,
     PlotFun |-> "default"]

\* TvRegSetNoiseModel(Opt, Model): [ret, Opt]
TvRegSetNoiseModel(O, Model) ==
    IF Model \in Recognized
    THEN [ret |-> 1, Opt |-> [O EXCEPT !.NoiseModel = Model]]
    ELSE [ret |-> 0, Opt |-> O]

TvRegSetLambda(O, L) == [O EXCEPT !.Lambda = L]
TvRegSetTol(O, T) == [O EXCEPT !.Tol = T]
TvRegSetMaxIter(O, M) == [O EXCEPT !.MaxIter = M]
TvRegSetPlotFun(O, F) == [O EXCEPT !.PlotFun = F]

\* TvRestore(u.Data, f.Data, ...): every [ret, Data] it can come back with;
\* it overwrites the n samples of u and returns 1, or fails and returns 0
TvRestoreResults(n) == [ret : {0, 1}, Data : Buffers(n)]

\* the record of one TvRestore invocation
Call(O, ret) ==
    [Lambda |-> O.Lambda, NoiseModel |-> O.NoiseModel, Tol |-> O.Tol,
     MaxIter |-> O.MaxIter, ret |-> ret]

NoCall == Call(NullOpt, 1)

(***************************************************************************)
(* LambdaTune: the estimates of lambda                                     *)
(***************************************************************************)
\* the empirical estimate of lambda for a sigma of S units, S > 0
LambdaEstimate(Model, S) ==
    CASE Model = <<"gaussian">> ->
            (7079 * ONE) \div S + (((2686 * ONE) \div S) * 100) \div S
      [] Model = <<"laplace">> ->
            LET numer == (0 - 416 * S) \div 10 + 130100
                b == (S - 2042) * S + 1635000
                denom == ((b \div 100) * S) \div 100 + 58360
            IN  (numer * ONE) \div denom
      [] Model = <<"poisson">> ->
            (2839 * ONE) \div S + (((1502 * ONE) \div S) * 100) \div S

\* Lambda after "if(Lambda < 1e-4) Lambda = 1e-4"
\* Faulty variant of ClampLambda: the estimate is used as computed.
ClampLambda_None(L) == L

\* "if(Lambda < 1e-4) Lambda = 1e-4;"
ClampLambda(L) == IF NumLess(L, Num(1)) THEN Num(1) ELSE L

InitialLambda(Model, Sigma) ==
    ClampLambda(IF Sigma.nan THEN NaN ELSE Num(LambdaEstimate(Model, Sigma.v)))

\* Lambda after "Lambda *= sqrt(Rmse/Sigma)" or "Lambda *= Rmse/Sigma"
\* Faulty variant of CorrectLambda: the quotient is inverted,
\* "Lambda *= Sigma/Rmse".
CorrectLambda_Inverted(Model, L, R, Sigma) ==
    IF L.nan \/ R.nan \/ Sigma.nan \/ R.v = 0 THEN NaN
    ELSE Num((L.v * Sigma.v) \div R.v)

\* "Lambda *= sqrt(Rmse/Sigma)" for laplace, "Lambda *= Rmse/Sigma" otherwise
CorrectLambda(Model, L, R, Sigma) ==
    IF L.nan \/ R.nan \/ Sigma.nan THEN NaN
    ELSE LET ratio == (R.v * ONE) \div Sigma.v
         IN  IF Model = <<"laplace">>
             THEN Num((L.v * Isqrt(ratio * ONE)) \div ONE)
             ELSE Num((L.v * ratio) \div ONE)

(***************************************************************************)
(* The state before main runs                                              *)
(***************************************************************************)
Init ==
    /\ pc = "main"
    /\ Param = ParamUnset
    /\ stderr = ""
    /\ f = NullImage
    /\ u = NullImage
    /\ Opt = NullOpt
    /\ OptLive = FALSE
    /\ Lambda = Num(0)
    /\ Rmse = Num(0)
    /\ k = 0
    /\ Success = 0
    /\ Status = 1
    /\ exitCode = 0 - 1
    /\ written = NoOutput
    /\ nSolve = 0
    /\ nTune = 0
    /\ lastCall = NoCall
    /\ solverFailed = FALSE
    /\ callsAfterFail = 0
    /\ nCopy = 0
    /\ lastOut = <<>>

history == <<nSolve, nTune, lastCall, solverFailed, callsAfterFail, lastOut>>
tuneLocals == <<Lambda, Rmse, k>>

\* the bookkeeping of one TvRestore invocation that ran with options O
Invoked(O, ret, inTune) ==
    /\ nSolve' = nSolve + 1
    /\ nTune' = IF inTune THEN nTune + 1 ELSE nTune
    /\ lastCall' = Call(O, ret)
    /\ solverFailed' = (solverFailed \/ ret = 0)
    /\ callsAfterFail' = IF solverFailed THEN callsAfterFail + 1 ELSE callsAfterFail
    /\ lastOut' = u'.Data

(***************************************************************************)
(* main                                                                    *)
(***************************************************************************)
\* main: "if(!ParseParams(&Param, argc, argv)) return 0;"
MainParseParams ==
    /\ pc = "main"
    /\ \E n \in 0..MaxArgs : \E args \in CommandLines(n) :
          LET r == ParseParams(args)
          IN  /\ Param' = r.Param
              /\ stderr' = r.msg
              /\ IF r.ret = 0
                 THEN pc' = "exit" /\ exitCode' = 0
                 ELSE pc' = "ReadImage" /\ exitCode' = exitCode
    /\ UNCHANGED <<f, u, Opt, OptLive, tuneLocals, Success, Status, written,
                   history, nCopy>>

\* main: ReadImage, IsGrayscale and "u = f"; a failed ReadImage goes to Catch
MainReadImage ==
    /\ pc = "ReadImage"
    /\ \/ /\ Param.InputFile \in ReadableFiles
          /\ \E img \in DecodedImages :
                /\ f' = [img EXCEPT !.NumChannels = IF IsGrayscale(img) = 1 THEN 1 ELSE 3]
                /\ u' = f'
          /\ pc' = "Malloc"
          /\ exitCode' = exitCode
       \/ /\ pc' = "exit"
          /\ exitCode' = Status
          /\ UNCHANGED <<f, u>>
    /\ UNCHANGED <<Param, stderr, Opt, OptLive, tuneLocals, Success, Status,
                   written, history, nCopy>>

\* main: "u.Data = Malloc(...)": the new buffer holds indeterminate samples
MainMalloc ==
    /\ pc = "Malloc"
    /\ \/ /\ \E d \in Buffers(NumSamples(f)) : u' = [u EXCEPT !.Data = d]
          /\ pc' = "Denoise"
          /\ exitCode' = exitCode
       \/ /\ u' = [u EXCEPT !.Data = <<>>]
          /\ pc' = "exit"
          /\ exitCode' = Status
    /\ UNCHANGED <<Param, stderr, f, Opt, OptLive, tuneLocals, Success, Status,
                   written, history, nCopy>>

\* Faulty variant of MainDenoiseReturned: the value Denoise returns is not
\* tested.
MainDenoiseReturned_Ignored ==
    /\ pc = "DenoiseReturned"
    /\ pc' = "WriteImage"
    /\ UNCHANGED <<Param, stderr, f, u, Opt, OptLive, tuneLocals, Success,
                   Status, exitCode, written, history, nCopy>>

\* main: "if(!Denoise(...)) goto Catch;"
MainDenoiseReturned ==
    /\ pc = "DenoiseReturned"
    /\ IF Success = 0
       THEN pc' = "exit" /\ exitCode' = Status
       ELSE pc' = "WriteImage" /\ exitCode' = exitCode
    /\ UNCHANGED <<Param, stderr, f, u, Opt, OptLive, tuneLocals, Success,
                   Status, written, history, nCopy>>

\* main: WriteImage, "Status = 0" and Catch; a file without a name cannot
\* be written
MainWriteImage ==
    /\ pc = "WriteImage"
    /\ \/ /\ Param.OutputFile # NULL
          /\ written' = [File |-> Param.OutputFile, Data |-> u.Data]
          /\ Status' = 0
       \/ /\ UNCHANGED <<written, Status>>
    /\ pc' = "exit"
    /\ exitCode' = Status'
    /\ UNCHANGED <<Param, stderr, f, u, Opt, OptLive, tuneLocals, Success,
                   history, nCopy>>

(***************************************************************************)
(* Denoise                                                                 *)
(***************************************************************************)
\* Faulty variant of DenoiseNewOpt: the value TvRegSetNoiseModel returns is
\* not tested.
DenoiseNewOpt_ModelUnchecked ==
    /\ pc = "Denoise"
    /\ Success' = 0
    /\ \/ /\ Opt' = NullOpt
          /\ OptLive' = FALSE
          /\ stderr' = "Memory allocation failed"
          /\ pc' = "DenoiseReturned"
       \/ /\ Opt' = TvRegSetNoiseModel(NewOpt, Param.Model).Opt
          /\ OptLive' = TRUE
          /\ stderr' = stderr
          /\ pc' = "DenoiseSetup"
    /\ UNCHANGED <<Param, f, u, tuneLocals, Status, exitCode, written, history,
                   nCopy>>

\* Faulty variant of DenoiseNewOpt: the initial guess u = f is set before the
\* noise model is validated.
DenoiseNewOpt_CopyFirst ==
    /\ pc = "Denoise"
    /\ Success' = 0
    /\ u' = [u EXCEPT !.Data = SubSeq(f.Data, 1, NumSamples(f))]
    /\ nCopy' = nCopy + 1
    /\ \/ /\ Opt' = NullOpt
          /\ OptLive' = FALSE
          /\ stderr' = "Memory allocation failed"
          /\ pc' = "DenoiseReturned"
       \/ LET r == TvRegSetNoiseModel(NewOpt, Param.Model)
          IN  /\ Opt' = r.Opt
              /\ OptLive' = TRUE
              /\ IF r.ret = 0
                 THEN stderr' = "Unrecognized noise model" /\ pc' = "DenoiseReturned"
                 ELSE stderr' = stderr /\ pc' = "DenoiseSetup"
    /\ UNCHANGED <<Param, f, tuneLocals, Status, exitCode, written, history>>

\* Denoise: TvRegNewOpt and TvRegSetNoiseModel; both failures "return 0"
DenoiseNewOpt ==
    /\ pc = "Denoise"
    /\ Success' = 0
    /\ \/ /\ Opt' = NullOpt
          /\ OptLive' = FALSE
          /\ stderr' = "Memory allocation failed"
          /\ pc' = "DenoiseReturned"
       \/ LET r == TvRegSetNoiseModel(NewOpt, Param.Model)
          IN  /\ Opt' = r.Opt
              /\ OptLive' = TRUE
              /\ IF r.ret = 0
                 THEN stderr' = "Unrecognized noise model" /\ pc' = "DenoiseReturned"
                 ELSE stderr' = stderr /\ pc' = "DenoiseSetup"
    /\ UNCHANGED <<Param, f, u, tuneLocals, Status, exitCode, written, history,
                   nCopy>>

\* Faulty variant of DenoiseSetup: with Sigma <= 0 the caller's Lambda is not
\* put into the options.
DenoiseSetup_LambdaNotSet ==
    /\ pc = "DenoiseSetup"
    /\ u' = [u EXCEPT !.Data = SubSeq(f.Data, 1, NumSamples(f))]
    /\ nCopy' = nCopy + 1
    /\ Opt' = TvRegSetMaxIter(TvRegSetTol(TvRegSetPlotFun(Opt, "none"), Num(100)), 40)
    /\ pc' = IF LeZero(Param.Sigma) THEN "FinalRestore" ELSE "LambdaTune"
    /\ UNCHANGED <<Param, stderr, f, OptLive, tuneLocals, Success, Status,
                   exitCode, written, history>>

\* Faulty variant of DenoiseSetup: the arguments of memcpy are exchanged,
\* "memcpy(f.Data, u.Data, ...)".
DenoiseSetup_CopyReversed ==
    /\ pc = "DenoiseSetup"
    /\ f' = [f EXCEPT !.Data = u.Data \o SubSeq(f.Data, NumSamples(f) + 1, Len(f.Data))]
    /\ nCopy' = nCopy + 1
    /\ LET O == TvRegSetMaxIter(TvRegSetTol(TvRegSetPlotFun(Opt, "none"), Num(100)), 40)
       IN  IF LeZero(Param.Sigma)
           THEN Opt' = TvRegSetLambda(O, Param.Lambda) /\ pc' = "FinalRestore"
           ELSE Opt' = O /\ pc' = "LambdaTune"
    /\ UNCHANGED <<Param, stderr, u, OptLive, tuneLocals, Success, Status,
                   exitCode, written, history>>

\* Denoise: memcpy(u.Data, f.Data), the tuning tolerances and "if(Sigma <= 0)"
DenoiseSetup ==
    /\ pc = "DenoiseSetup"
    /\ u' = [u EXCEPT !.Data = SubSeq(f.Data, 1, NumSamples(f))]
    /\ nCopy' = nCopy + 1
    /\ LET O == TvRegSetMaxIter(TvRegSetTol(TvRegSetPlotFun(Opt, "none"), Num(100)), 40)
       IN  IF LeZero(Param.Sigma)
           THEN Opt' = TvRegSetLambda(O, Param.Lambda) /\ pc' = "FinalRestore"
           ELSE Opt' = O /\ pc' = "LambdaTune"
    /\ UNCHANGED <<Param, stderr, f, OptLive, tuneLocals, Success, Status,
                   exitCode, written, history>>

\* Faulty variant of DenoiseFinal: the noisy image is copied into u again
\* before the final TvRestore.
DenoiseFinal_ColdStart ==
    /\ pc = "FinalRestore"
    /\ nCopy' = nCopy + 1
    /\ LET O == TvRegSetMaxIter(TvRegSetTol(Opt, Num(5)), 100)
       IN  /\ Opt' = O
           /\ \E r \in TvRestoreResults(NumSamples(f)) :
                 /\ u' = [u EXCEPT !.Data = r.Data]
                 /\ Invoked(O, r.ret, FALSE)
                 /\ Success' = r.ret
                 /\ stderr' = IF r.ret = 0 THEN "Error in computation." ELSE stderr
    /\ OptLive' = FALSE
    /\ pc' = "DenoiseReturned"
    /\ UNCHANGED <<Param, f, tuneLocals, Status, exitCode, written>>

\* Denoise: "Final denoising"; Catch frees Opt
DenoiseFinal ==
    /\ pc = "FinalRestore"
    /\ LET O == TvRegSetMaxIter(TvRegSetTol(Opt, Num(5)), 100)
       IN  /\ Opt' = O
           /\ \E r \in TvRestoreResults(NumSamples(f)) :
                 /\ u' = [u EXCEPT !.Data = r.Data]
                 /\ Invoked(O, r.ret, FALSE)
                 /\ Success' = r.ret
                 /\ stderr' = IF r.ret = 0 THEN "Error in computation." ELSE stderr
    /\ OptLive' = FALSE
    /\ pc' = "DenoiseReturned"
    /\ UNCHANGED <<Param, f, tuneLocals, Status, exitCode, written, nCopy>>

(***************************************************************************)
(* LambdaTune                                                              *)
(***************************************************************************)
\* LambdaTune up to the loop; "return 0" takes Denoise to Catch
LambdaTuneInit ==
    /\ pc = "LambdaTune"
    /\ IF Param.Model \in Recognized
       THEN /\ Lambda' = InitialLambda(Param.Model, Param.Sigma)
            /\ Opt' = TvRegSetLambda(Opt, Lambda')
            /\ k' = 0
            /\ pc' = "TuneLoop"
            /\ UNCHANGED <<stderr, OptLive>>
       ELSE /\ stderr' = "Unrecognized noise model"
            /\ OptLive' = FALSE
            /\ pc' = "DenoiseReturned"
            /\ UNCHANGED <<Lambda, Opt, k>>
    /\ UNCHANGED <<Param, f, u, Rmse, Success, Status, exitCode, written,
                   history, nCopy>>

\* Faulty variant of LambdaTuneRound: the loop is left as soon as the
\* residual is at or below the target, Rmse <= Sigma.
LambdaTuneRound_EarlyExit ==
    /\ pc = "TuneLoop"
    /\ k < LAMBDA_TUNE_ITERATIONS
    /\ \E r \in TvRestoreResults(NumSamples(f)) :
          /\ u' = [u EXCEPT !.Data = r.Data]
          /\ Invoked(Opt, r.ret, TRUE)
          /\ IF r.ret = 0
             THEN /\ stderr' = "Error in computation."
                  /\ OptLive' = FALSE
                  /\ pc' = "DenoiseReturned"
                  /\ UNCHANGED <<Lambda, Rmse, k, Opt>>
             ELSE /\ Rmse' = ComputeRmse(f, u')
                  /\ Lambda' = CorrectLambda(Param.Model, Lambda, Rmse', Param.Sigma)
                  /\ Opt' = TvRegSetLambda(Opt, Lambda')
                  /\ k' = k + 1
                  /\ pc' = IF ~Rmse'.nan /\ ~Param.Sigma.nan /\ Rmse'.v <= Param.Sigma.v
                           THEN "FinalRestore" ELSE pc
                  /\ UNCHANGED <<stderr, OptLive>>
    /\ UNCHANGED <<Param, f, Success, Status, exitCode, written, nCopy>>

\* Faulty variant of LambdaTuneRound: every round halves the tolerance.
LambdaTuneRound_Tighten ==
    /\ pc = "TuneLoop"
    /\ k < LAMBDA_TUNE_ITERATIONS
    /\ \E r \in TvRestoreResults(NumSamples(f)) :
          /\ u' = [u EXCEPT !.Data = r.Data]
          /\ Invoked(Opt, r.ret, TRUE)
          /\ IF r.ret = 0
             THEN /\ stderr' = "Error in computation."
                  /\ OptLive' = FALSE
                  /\ pc' = "DenoiseReturned"
                  /\ UNCHANGED <<Lambda, Rmse, k, Opt>>
             ELSE /\ Rmse' = ComputeRmse(f, u')
                  /\ Lambda' = CorrectLambda(Param.Model, Lambda, Rmse', Param.Sigma)
                  /\ Opt' = TvRegSetTol(TvRegSetLambda(Opt, Lambda'),
                                        Num(Opt.Tol.v \div 2))
                  /\ k' = k + 1
                  /\ UNCHANGED <<stderr, OptLive, pc>>
    /\ UNCHANGED <<Param, f, Success, Status, exitCode, written, nCopy>>

\* Faulty variant of LambdaTuneRound: TvRegSetLambda is called before Lambda
\* is corrected, so the options lag one correction behind.
LambdaTuneRound_StaleLambda ==
    /\ pc = "TuneLoop"
    /\ k < LAMBDA_TUNE_ITERATIONS
    /\ \E r \in TvRestoreResults(NumSamples(f)) :
          /\ u' = [u EXCEPT !.Data = r.Data]
          /\ Invoked(Opt, r.ret, TRUE)
          /\ IF r.ret = 0
             THEN /\ stderr' = "Error in computation."
                  /\ OptLive' = FALSE
                  /\ pc' = "DenoiseReturned"
                  /\ UNCHANGED <<Lambda, Rmse, k, Opt>>
             ELSE /\ Rmse' = ComputeRmse(f, u')
                  /\ Opt' = TvRegSetLambda(Opt, Lambda)
                  /\ Lambda' = CorrectLambda(Param.Model, Lambda, Rmse', Param.Sigma)
                  /\ k' = k + 1
                  /\ UNCHANGED <<stderr, OptLive, pc>>
    /\ UNCHANGED <<Param, f, Success, Status, exitCode, written, nCopy>>

\* Faulty variant of LambdaTuneRound: a failed TvRestore is tried again.
LambdaTuneRound_Retry ==
    /\ pc = "TuneLoop"
    /\ k < LAMBDA_TUNE_ITERATIONS
    /\ \E r \in TvRestoreResults(NumSamples(f)) :
          /\ u' = [u EXCEPT !.Data = r.Data]
          /\ Invoked(Opt, r.ret, TRUE)
          /\ IF r.ret = 0
             THEN /\ stderr' = "Error in computation."
                  /\ UNCHANGED <<Lambda, Rmse, k, Opt, OptLive, pc>>
             ELSE /\ Rmse' = ComputeRmse(f, u')
                  /\ Lambda' = CorrectLambda(Param.Model, Lambda, Rmse', Param.Sigma)
                  /\ Opt' = TvRegSetLambda(Opt, Lambda')
                  /\ k' = k + 1
                  /\ UNCHANGED <<stderr, OptLive, pc>>
    /\ UNCHANGED <<Param, f, Success, Status, exitCode, written, nCopy>>

\* one pass of the loop body of LambdaTune
LambdaTuneRound ==
    /\ pc = "TuneLoop"
    /\ k < LAMBDA_TUNE_ITERATIONS
    /\ \E r \in TvRestoreResults(NumSamples(f)) :
          /\ u' = [u EXCEPT !.Data = r.Data]
          /\ Invoked(Opt, r.ret, TRUE)
          /\ IF r.ret = 0
             THEN /\ stderr' = "Error in computation."
                  /\ OptLive' = FALSE
                  /\ pc' = "DenoiseReturned"
                  /\ UNCHANGED <<Lambda, Rmse, k, Opt>>
             ELSE /\ Rmse' = ComputeRmse(f, u')
                  /\ Lambda' = CorrectLambda(Param.Model, Lambda, Rmse', Param.Sigma)
                  /\ Opt' = TvRegSetLambda(Opt, Lambda')
                  /\ k' = k + 1
                  /\ UNCHANGED <<stderr, OptLive, pc>>
    /\ UNCHANGED <<Param, f, Success, Status, exitCode, written, nCopy>>

\* the loop of LambdaTune ends: "return 1"
LambdaTuneReturn ==
    /\ pc = "TuneLoop"
    /\ ~(k < LAMBDA_TUNE_ITERATIONS)
    /\ pc' = "FinalRestore"
    /\ UNCHANGED <<Param, stderr, f, u, Opt, OptLive, tuneLocals, Success,
                   Status, exitCode, written, history, nCopy>>

Next ==
    \/ MainParseParams
    \/ MainReadImage
    \/ MainMalloc
    \/ DenoiseNewOpt
    \/ DenoiseSetup
    \/ LambdaTuneInit
    \/ LambdaTuneRound
    \/ LambdaTuneReturn
    \/ DenoiseFinal
    \/ MainDenoiseReturned
    \/ MainWriteImage

Spec == Init /\ [][Next]_vars

(***************************************************************************)
(* LambdaTune's initial estimate over the whole range of sigma             *)
(***************************************************************************)
\* the noise levels 0.001 to 0.5 in steps of 1/ONE
ValidSigmas == 10..5000

\* what main holds after ReadImage and IsGrayscale
LoadedImages ==
    {[img EXCEPT !.NumChannels = IF IsGrayscale(img) = 1 THEN 1 ELSE 3] :
        img \in DecodedImages}

\* the options object as Denoise has set it when it calls LambdaTune
TuningOpt(Model) ==
    TvRegSetMaxIter(TvRegSetTol(TvRegSetPlotFun(
        TvRegSetNoiseModel(NewOpt, Model).Opt, "none"), Num(100)), 40)

\* the state, but for the options object and LambdaTune's locals, in which
\* Denoise, run by main on image img with parameters P, calls LambdaTune
LambdaTuneCalled(P, img) ==
    /\ Param = P
    /\ stderr = ""
    /\ f = img
    /\ u = [img EXCEPT !.Data = SubSeq(img.Data, 1, NumSamples(img))]
    /\ OptLive = TRUE
    /\ Rmse = Num(0)
    /\ Success = 0
    /\ Status = 1
    /\ exitCode = 0 - 1
    /\ written = NoOutput
    /\ nSolve = 0
    /\ nTune = 0
    /\ lastCall = NoCall
    /\ solverFailed = FALSE
    /\ callsAfterFail = 0
    /\ nCopy = 1
    /\ lastOut = <<>>

\* the parameters of "tvdenoise -n Model:Sigma in.png out.png"
TuningParams(Model, Sigma) ==
    [ParamDefaults EXCEPT !.Model = Model, !.Sigma = Sigma,
                          !.InputFile = <<"in.png">>,
                          !.OutputFile = <<"out.png">>]

\* LambdaTune is entered with any recognized model and any valid sigma
InitialLambdaInit ==
    /\ pc = "LambdaTune"
    /\ Lambda = Num(0)
    /\ k = 0
    /\ \E Model \in Recognized : \E S \in ValidSigmas : \E img \in LoadedImages :
          LambdaTuneCalled(TuningParams(Model, Num(S)), img)
    /\ Opt = TuningOpt(Param.Model)

SpecInitialLambda == InitialLambdaInit /\ [][LambdaTuneInit]_vars

(***************************************************************************)
(* One round of LambdaTune from any lambda                                 *)
(***************************************************************************)
\* the largest residual the correction is compared at, in units of 1/ONE
MaxRmse == 300

\* noise levels below, between and above the residuals of the images
TunedSigmas == {50, 392, 5000}

\* positive values of Lambda at the head of the loop
TunedLambdas == {1, 7, 500, 1000}

\* LambdaTune is at the head of its loop with any positive Lambda
CorrectInit ==
    /\ pc = "TuneLoop"
    /\ k = 0
    /\ \E Model \in Recognized : \E S \in TunedSigmas : \E img \in LoadedImages :
          LambdaTuneCalled(TuningParams(Model, Num(S)), img)
    /\ Lambda \in {Num(L) : L \in TunedLambdas}
    /\ Opt = TvRegSetLambda(TuningOpt(Param.Model), Lambda)

SpecCorrect == CorrectInit /\ [][LambdaTuneRound]_vars

(***************************************************************************)
(* ComputeRmse on any two images of one shape                              *)
(***************************************************************************)
\* largest number of samples of an image
MaxSamples == 6

\* the shapes with Width, Height and NumChannels positive
Shapes ==
    {s \in [Width : 1..MaxSamples, Height : 1..MaxSamples, NumChannels : {1, 3}] :
        s.Width * s.Height * s.NumChannels <= MaxSamples}

\* the images of shape s
ImagesOf(s) ==
    {[Data |-> d, Width |-> s.Width, Height |-> s.Height,
      NumChannels |-> s.NumChannels] :
        d \in Buffers(s.Width * s.Height * s.NumChannels)}

\* ComputeRmse is about to be called on two images of one shape
RmseInit ==
    /\ pc = "ComputeRmse"
    /\ \E s \in Shapes : f \in ImagesOf(s) /\ u \in ImagesOf(s)
    /\ Param = TuningParams(<<"gaussian">>, Num(392))
    /\ stderr = ""
    /\ Opt = TuningOpt(Param.Model)
    /\ OptLive = TRUE
    /\ Lambda = Num(0)
    /\ Rmse = Num(0)
    /\ k = 0
    /\ Success = 0
    /\ Status = 1
    /\ exitCode = 0 - 1
    /\ written = NoOutput
    /\ nSolve = 0
    /\ nTune = 0
    /\ lastCall = NoCall
    /\ solverFailed = FALSE
    /\ callsAfterFail = 0
    /\ nCopy = 1
    /\ lastOut = <<>>

\* "Rmse = ComputeRmse(f, u);"
RmseCall ==
    /\ pc = "ComputeRmse"
    /\ Rmse' = ComputeRmse(f, u)
    /\ pc' = "ComputeRmseReturned"
    /\ UNCHANGED <<Param, stderr, f, u, Opt, OptLive, Lambda, k, Success,
                   Status, exitCode, written, history, nCopy>>

SpecRmse == RmseInit /\ [][RmseCall]_vars

(***************************************************************************)
(* Properties                                                              *)
(***************************************************************************)
\* Denoise has returned to main and main has not yet gone on
DenoiseDone == pc \in {"DenoiseReturned", "WriteImage"}

\* Denoise got its options object and its noise model was accepted
DenoiseStarted ==
    stderr \notin {"Memory allocation failed", "Unrecognized noise model"}

\* the samples of f that Denoise copies into u
NoisySamples == SubSeq(f.Data, 1, NumSamples(f))

\* C1: for a recognized noise model and Sigma > 0, when every TvRestore
\* invocation succeeds, LambdaTune invokes TvRestore exactly
\* LAMBDA_TUNE_ITERATIONS = 5 times, whatever the residuals are, Denoise then
\* invokes it exactly once more with tolerance 5e-4 and 100 iterations, and
\* Denoise returns 1 after these 6 invocations. (A Denoise that cannot
\* allocate its options object makes no invocation at all.)
C1_FiveRoundsThenFinal ==
    (Param.Model \in Recognized /\ GtZero(Param.Sigma) /\ ~solverFailed) =>
        /\ pc = "TuneLoop" => (nTune = k /\ nSolve = k /\ k <= 5)
        /\ pc = "FinalRestore" => (nTune = 5 /\ nSolve = 5)
        /\ (DenoiseDone /\ DenoiseStarted) =>
              /\ nTune = 5
              /\ nSolve = 6
              /\ lastCall.Tol = Num(5)
              /\ lastCall.MaxIter = 100
              /\ Success = 1

\* a run of C1 in which a round measured a residual of 0 (Lambda became 0)
\* and the tuning nevertheless ran all its rounds
C1_Witness ==
    /\ Param.Model \in Recognized /\ GtZero(Param.Sigma) /\ ~solverFailed
    /\ pc = "DenoiseReturned"
    /\ nSolve = 6
    /\ Success = 1
    /\ Lambda = Num(0)

\* C2: once a TvRestore invocation has failed, in a tuning round or in the
\* final solve, no further invocation is made, Denoise returns 0, the output
\* image is never written and main returns a non-zero status.
C2_SolverFailureAborts ==
    solverFailed =>
        /\ callsAfterFail = 0
        /\ lastCall.ret = 0
        /\ pc \in {"DenoiseReturned", "exit"}
        /\ Success = 0
        /\ written = NoOutput
        /\ pc = "exit" => exitCode # 0

\* the third tuning round failed and the program has ended
C2_Witness ==
    /\ solverFailed
    /\ nTune = 3
    /\ nSolve = 3
    /\ pc = "exit"

\* C3: with Sigma <= 0 LambdaTune is not entered: TvRestore is invoked
\* exactly once, with the Lambda of the caller, tolerance 5e-4 and 100
\* iterations, and no residual is computed to correct Lambda.
C3_DirectLambda ==
    (pc # "main" /\ LeZero(Param.Sigma)) =>
        /\ pc \notin {"LambdaTune", "TuneLoop"}
        /\ nTune = 0
        /\ nSolve <= 1
        /\ Lambda = Num(0) /\ Rmse = Num(0) /\ k = 0
        /\ pc = "FinalRestore" => (nSolve = 0 /\ Opt.Lambda = Param.Lambda)
        /\ nSolve = 1 =>
              /\ lastCall.Lambda = Param.Lambda
              /\ lastCall.Tol = Num(5)
              /\ lastCall.MaxIter = 100
        /\ (DenoiseDone /\ DenoiseStarted) => nSolve = 1

\* Denoise has returned 1 after one solve with the lambda 5 of "-l 5"
C3_Witness ==
    /\ LeZero(Param.Sigma)
    /\ Param.Lambda = Num(5 * ONE)
    /\ pc = "DenoiseReturned"
    /\ Success = 1
    /\ nSolve = 1
    /\ lastCall.Lambda = Num(5 * ONE)

\* C4, as claimed, for the runs that tune lambda from a Sigma > 0: in every
\* TvRestore invocation the lambda of the options is strictly positive.
C4_LambdaPositive ==
    (GtZero(Param.Sigma) /\ nSolve > 0) => GtZero(lastCall.Lambda)

\* C5: Denoise with a model name other than "gaussian", "laplace" and
\* "poisson" makes no TvRestore invocation and returns 0; main then writes
\* no image.
C5_UnrecognizedModel ==
    (pc # "main" /\ Param.Model \notin Recognized) =>
        /\ nSolve = 0
        /\ Success = 0
        /\ pc \notin {"DenoiseSetup", "LambdaTune", "TuneLoop", "FinalRestore", "WriteImage"}
        /\ written = NoOutput

\* Denoise has returned for the model name "speckle" given with "-l 5"
C5_Witness ==
    /\ pc = "DenoiseReturned"
    /\ Param.Model = <<"speckle">>
    /\ LeZero(Param.Sigma)
    /\ stderr = "Unrecognized noise model"
    /\ Success = 0

\* Denoise has returned because TvRegSetNoiseModel refused the model name
UnrecognizedReturn ==
    pc = "DenoiseReturned" /\ stderr = "Unrecognized noise model"

\* C6, as claimed: when Denoise fails because the model name is
\* unrecognized, the working image is copy-equal to the noisy image.
C6_CopyEqual == UnrecognizedReturn => u.Data = NoisySamples

\* C6, amended: when Denoise fails because TvRegSetNoiseModel refuses the
\* model name, Denoise has not touched the working image: no copy of the
\* noisy image was made and u still holds what the new buffer held.
C6_Untouched ==
    [][(pc = "Denoise" /\ UnrecognizedReturn') =>
           (u' = u /\ nCopy = 0 /\ nCopy' = 0)]_vars

\* Denoise has failed on the model name and u differs from the noisy image
C6_Witness ==
    /\ UnrecognizedReturn
    /\ nCopy = 0
    /\ u.Data # NoisySamples

\* C7, as claimed: the options object that Denoise created is destroyed when
\* Denoise has returned, on every exit path.
C7_OptFreed == pc \in {"DenoiseReturned", "WriteImage", "exit"} => ~OptLive

\* the messages of ParseParams for a configuration error
ConfigErrors ==
    {"Invalid parameter format.", "sigma must be positive.",
     "lambda must be positive.", "Unknown option.",
     "Either sigma or lambda must be specified."}

\* C8, as claimed: a run that ends on a configuration error found by
\* ParseParams ends with a non-zero status and nothing written.
C8_ConfigErrorStatus ==
    (pc = "exit" /\ stderr \in ConfigErrors) => (exitCode # 0 /\ written = NoOutput)

\* C9, as claimed: main goes on to read the image only for a command line
\* that set a positive sigma or a positive lambda.
C9_NeitherRejected ==
    pc = "ReadImage" => (GtZero(Param.Sigma) \/ GtZero(Param.Lambda))

\* sigma, lambda were set by the command line
SigmaSet == Param.Sigma # ParamDefaults.Sigma
LambdaSet == Param.Lambda # ParamDefaults.Lambda

\* C10, as claimed: a command line is accepted only when exactly one of
\* sigma and lambda is set.
C10_ExactlyOne ==
    pc = "ReadImage" =>
        /\ SigmaSet \/ LambdaSet
        /\ ~(GtZero(Param.Sigma) /\ GtZero(Param.Lambda))

\* C10, amended: a command line is accepted only when at least one of sigma
\* and lambda is set; one that sets both is accepted, and Denoise then
\* tunes lambda from sigma.
C10_AtLeastOne ==
    /\ pc = "ReadImage" => (SigmaSet \/ LambdaSet)
    /\ (GtZero(Param.Sigma) /\ GtZero(Param.Lambda) /\ nSolve > 0) => nTune > 0

\* a command line that set both sigma and lambda was accepted
C10_Witness ==
    /\ pc = "ReadImage"
    /\ GtZero(Param.Sigma)
    /\ GtZero(Param.Lambda)

\* C11, as claimed: a command line that lacks a required file name, the
\* noisy image or the denoised image, is turned down by ParseParams, so that
\* main gets past ParseParams only with both names, and no image is read
\* and no solver is invoked without them.
C11_MissingFileRejected ==
    pc \notin {"main", "exit"} =>
        /\ Param.InputFile # NULL
        /\ Param.OutputFile # NULL

\* C12: for each of the three noise models and every sigma from 0.001 to
\* 0.5, the lambda that LambdaTune has put into the options before the first
\* solver call is a number and is at least 1e-4.
C12_InitialLambdaFloor ==
    (/\ pc = "TuneLoop"
     /\ nSolve = 0
     /\ Param.Model \in Recognized
     /\ ~Param.Sigma.nan
     /\ Param.Sigma.v \in ValidSigmas) =>
        /\ ~Opt.Lambda.nan
        /\ Opt.Lambda.v >= 1
        /\ Opt.Lambda = Lambda

\* the laplace estimate at sigma 0.5 is negative and was raised to 1e-4
C12_Witness ==
    /\ pc = "TuneLoop"
    /\ nSolve = 0
    /\ Param.Model = <<"laplace">>
    /\ Param.Sigma = Num(5000)
    /\ LambdaEstimate(Param.Model, Param.Sigma.v) < 0
    /\ Opt.Lambda = Num(1)

\* a <= b for two numbers, false when either is not a number
NumLeq(a, b) == ~a.nan /\ ~b.nan /\ a.v <= b.v

\* C13: the correction of one round is monotonic in the residual.  With
\* Lambda and Sigma positive, the Lambda a round computes from its residual
\* is at least the correction of every smaller residual >= 0 and at most the
\* correction of every larger residual, for each noise model.
C13_CorrectionMonotone ==
    [][(/\ pc = "TuneLoop"
        /\ k' = k + 1
        /\ GtZero(Lambda)
        /\ GtZero(Param.Sigma)
        /\ Rmse'.v <= MaxRmse) =>
            /\ \A r1 \in 0..Rmse'.v :
                  NumLeq(CorrectLambda(Param.Model, Lambda, Num(r1), Param.Sigma),
                         Lambda')
            /\ \A r2 \in Rmse'.v..MaxRmse :
                  NumLeq(Lambda',
                         CorrectLambda(Param.Model, Lambda, Num(r2), Param.Sigma))]_vars

\* a round has corrected a positive Lambda from a residual between 0 and
\* MaxRmse, and a larger residual would have given a larger Lambda
C13_Witness ==
    /\ pc = "TuneLoop"
    /\ k = 1
    /\ Rmse.v > 0
    /\ Rmse.v < MaxRmse
    /\ GtZero(lastCall.Lambda)
    /\ Lambda = CorrectLambda(Param.Model, lastCall.Lambda, Rmse, Param.Sigma)
    /\ Lambda.v < CorrectLambda(Param.Model, lastCall.Lambda, Num(MaxRmse),
                                Param.Sigma).v

\* C14: the root-mean-square error of an image against itself is zero, for
\* every image whose width, height and number of channels are positive.
C14_RmseSelfZero ==
    (/\ pc = "ComputeRmseReturned"
     /\ u = f
     /\ f.Width > 0 /\ f.Height > 0 /\ f.NumChannels > 0) => Rmse = Num(0)

\* ComputeRmse has returned for an image with nonzero samples against itself
C14_Witness ==
    /\ pc = "ComputeRmseReturned"
    /\ u = f
    /\ NumSamples(f) = MaxSamples
    /\ \E n \in 1..NumSamples(f) : f.Data[n] # 0
    /\ Rmse = Num(0)

\* a and b have the same width, height and number of channels
SameShape(a, b) ==
    /\ a.Width = b.Width
    /\ a.Height = b.Height
    /\ a.NumChannels = b.NumChannels

\* C15: the root-mean-square error is symmetric: for two images of identical
\* dimensions, what ComputeRmse(f, u) returned is what ComputeRmse(u, f)
\* returns.
C15_RmseSymmetric ==
    (pc = "ComputeRmseReturned" /\ SameShape(f, u) /\ NumSamples(f) > 0) =>
        Rmse = ComputeRmse(u, f)

\* ComputeRmse has returned a nonzero error for two different images
C15_Witness ==
    /\ pc = "ComputeRmseReturned"
    /\ SameShape(f, u)
    /\ u # f
    /\ GtZero(Rmse)
    /\ Rmse = ComputeRmse(u, f)

\* the positions of the program inside Denoise and LambdaTune
DenoisePcs == {"Denoise", "DenoiseSetup", "LambdaTune", "TuneLoop", "FinalRestore"}

\* C16: every TvRestore invocation of the tuning loop runs with tolerance
\* 1e-2 and at most 40 iterations; LambdaTune changes no field of the
\* options but lambda; tolerance and iteration cap stay as Denoise set them
\* for tuning until the final solve, where they change once, to 5e-4 and
\* 100, after tuning and before the final TvRestore.
C16_TuningOptions ==
    [][/\ nTune' > nTune =>
             /\ lastCall'.Tol = Num(100)
             /\ lastCall'.MaxIter = 40
       /\ pc \in {"LambdaTune", "TuneLoop"} =>
             Opt' = [Opt EXCEPT !.Lambda = Opt'.Lambda]
       /\ pc \in {"LambdaTune", "TuneLoop", "FinalRestore"} =>
             /\ Opt.Tol = Num(100)
             /\ Opt.MaxIter = 40
       /\ (pc \notin {"Denoise", "DenoiseSetup"}
             /\ (Opt'.Tol # Opt.Tol \/ Opt'.MaxIter # Opt.MaxIter)) =>
             /\ pc = "FinalRestore"
             /\ nSolve' = nSolve + 1
             /\ nTune' = nTune
             /\ lastCall'.Tol = Num(5)
             /\ lastCall'.MaxIter = 100]_vars

\* five tuning rounds and the final solve have run, the last one with the
\* tightened options
C16_Witness ==
    /\ pc = "DenoiseReturned"
    /\ Success = 1
    /\ nTune = 5
    /\ nSolve = 6
    /\ lastCall.Tol = Num(5)
    /\ lastCall.MaxIter = 100

\* C17: with sigma > 0 and every TvRestore succeeding, LambdaTune starts
\* from the initial estimate; its k-th round solves with the Lambda it holds
\* and then corrects it with the residual between f and the output of that
\* k-th solve, and puts the corrected value into the options; it returns
\* after exactly five rounds, leaving in u the output of the fifth solve and
\* in the options the Lambda of the fifth correction, which no tuning round
\* has solved with; the final TvRestore runs with that Lambda.
C17_FinalLambda ==
    [][GtZero(Param.Sigma) =>
          /\ (pc = "LambdaTune" /\ pc' = "TuneLoop") =>
                /\ Lambda' = InitialLambda(Param.Model, Param.Sigma)
                /\ Opt'.Lambda = Lambda'
                /\ k' = 0
                /\ nTune' = 0
          /\ (pc = "TuneLoop" /\ k' = k + 1) =>
                /\ nTune' = k'
                /\ lastCall'.Lambda = Lambda
                /\ lastOut' = u'.Data
                /\ Rmse' = ComputeRmse(f, u')
                /\ Lambda' = CorrectLambda(Param.Model, Lambda, Rmse', Param.Sigma)
                /\ Opt'.Lambda = Lambda'
          /\ (pc = "TuneLoop" /\ pc' = "FinalRestore") =>
                /\ k = LAMBDA_TUNE_ITERATIONS
                /\ nTune = LAMBDA_TUNE_ITERATIONS
                /\ nSolve = nTune
                /\ u.Data = lastOut
                /\ UNCHANGED <<u, Opt, Lambda>>
          /\ pc = "FinalRestore" =>
                /\ Opt.Lambda = Lambda
                /\ Lambda = CorrectLambda(Param.Model, lastCall.Lambda,
                                          ComputeRmse(f, u), Param.Sigma)
                /\ lastCall'.Lambda = Lambda
                /\ nTune' = LAMBDA_TUNE_ITERATIONS]_vars

\* tuning and the final solve succeeded, and the final solve ran with a
\* positive Lambda that differs from the Lambda of the fifth tuning solve
C17_Witness ==
    /\ pc = "DenoiseReturned"
    /\ Success = 1
    /\ GtZero(Param.Sigma)
    /\ nTune = 5
    /\ nSolve = 6
    /\ lastCall.Lambda = Lambda
    /\ GtZero(Lambda)
    /\ Lambda # InitialLambda(Param.Model, Param.Sigma)

\* C18: within one Denoise, memcpy(u.Data, f.Data) runs exactly once, before
\* the first TvRestore; the first TvRestore starts from that copy, every
\* later one, the final solve included, starts from what the previous
\* TvRestore left in u; and nothing but the copy and TvRestore writes u.
C18_WarmStartChain ==
    [][/\ nCopy' <= 1
       /\ nCopy' # nCopy => (nSolve' = 0 /\ u'.Data = SubSeq(f.Data, 1, NumSamples(f)))
       /\ nSolve' = nSolve + 1 =>
             /\ nCopy = 1
             /\ nCopy' = nCopy
             /\ IF nSolve = 0
                THEN u.Data = NoisySamples
                ELSE u.Data = lastOut
             /\ lastOut' = u'.Data
       /\ (pc \in DenoisePcs /\ u' # u) =>
             (nCopy' = nCopy + 1 \/ nSolve' = nSolve + 1)]_vars

\* the final solve has run after five tuning rounds that moved u away from
\* the noisy image
C18_Witness ==
    /\ pc = "DenoiseReturned"
    /\ nCopy = 1
    /\ nTune = 5
    /\ nSolve = 6
    /\ u.Data = lastOut
    /\ u.Data # NoisySamples

\* C19: Denoise, LambdaTune and ComputeRmse leave the noisy image as it is:
\* no step inside Denoise, on a path that succeeds or fails, changes the
\* samples, width, height or number of channels of f.
C19_NoisyUnchanged ==
    [][(pc \in DenoisePcs) => f' = f]_vars

\* Denoise has failed in the middle of tuning, after rounds that computed
\* the residual against f
C19_Witness ==
    /\ pc = "DenoiseReturned"
    /\ Success = 0
    /\ nTune = 3
    /\ solverFailed
    /\ f \in LoadedImages
    /\ u.Data # NoisySamples

\* the number of steps Denoise has yet to take, at most
DenoiseRank ==
    CASE pc = "Denoise" -> 10
      [] pc = "DenoiseSetup" -> 9
      [] pc = "LambdaTune" -> 8
      [] pc = "TuneLoop" -> 2 + (LAMBDA_TUNE_ITERATIONS - k)
      [] pc = "FinalRestore" -> 1
      [] OTHER -> 0

\* C20: every step inside Denoise brings its return nearer, so that Denoise
\* returns, with 1 or 0, after a bounded number of steps; it makes at most
\* 6 TvRestore invocations, and none after one that failed.
C20_BoundedDenoise ==
    [][/\ pc \in DenoisePcs =>
             /\ DenoiseRank' < DenoiseRank
             /\ DenoiseRank' >= 0
       /\ pc' = "DenoiseReturned" => Success' \in {0, 1}
       /\ nSolve' <= LAMBDA_TUNE_ITERATIONS + 1
       /\ callsAfterFail' = 0
       /\ solverFailed => nSolve' = nSolve]_vars

\* the third TvRestore failed and Denoise returned 0 without another call
C20_Witness ==
    /\ pc = "DenoiseReturned"
    /\ Success = 0
    /\ solverFailed
    /\ lastCall.ret = 0
    /\ nSolve = 3
    /\ callsAfterFail = 0

====
